---- MODULE Spec2Model ----
(***************************************************************************)
(* Model of the client-side upload/elicitation orchestrator of the React   *)
(* chat component (App) and of the handlers it registers.  One action per  *)
(* event handler or per continuation of a handler after an await.          *)
(*                                                                         *)
(* The hidden file inputs are opened with HTMLInputElement.click(), which  *)
(* returns at once: the page keeps receiving events while a picker is      *)
(* shown, and the change event of a picker may arrive at any later time.   *)
(* Nothing in the component ties a picker to the busy flag, so the model   *)
(* lets the change event interleave freely with the other events.          *)
(***************************************************************************)
EXTENDS Naturals, Sequences, FiniteSets, TLC

\* ---------------------------------------------------------------- bounds
\* User operations in one run: accepted sendMessage calls, files chosen in the
\* upload picker and files chosen in the attach picker, taken together.
MaxOps == 3

\* -------------------------------------------------------------- inputs
NoFile == 0         \* attachedFile === null
NoTrace == 0        \* no X-Trace-ID header / dataset.traceId unset
Inputs == { <<>>, <<" ">>, <<" ", "h", " ">> }
Urls == { "http://x/upload", "http://y/upload" }
FileIds == { "abc123", "def456" }
Failures == { "http", "net" }      \* non-2xx status, fetch rejected

ChatUrl == "AI_SERVICE_URL/chat"
CompleteUrl == "AI_SERVICE_URL/elicitation/complete"

NoElicitation == [type |-> "none", mode |-> "none", url |-> "none"]
Elicitations ==
    [type : {"elicitation", "stream_upload"}, mode : {"url", "stream"}, url : Urls]

VARIABLES
    messages,          \* useState([]): the conversation
    input,             \* useState(''): pending text, a sequence of characters
    isProcessing,      \* useState(false)
    attachedFile,      \* useState(null): a File object (its identity) or NoFile
    pickerOpen,        \* the picker of fileInputRef is shown
    attachPickerOpen,  \* the picker of attachFileInputRef is shown
    dataset,           \* fileInputRef.current.dataset
    sendOps,           \* sendMessage calls: position and closure of each
    pickOps,           \* handleFileSelect calls: position and locals of each
    reqs,              \* every fetch issued, in order, with its outcome
    nextTrace,         \* generateTraceId: the next fresh token
    nextFile,          \* the next File object the user will produce
    kept,              \* history: the file last attached and neither removed nor
                       \* uploaded with success since
    logCall,           \* logging.js: the last call of one of its functions
    logOut             \* logging.js: what that call returned or wrote to the console

vars == << messages, input, isProcessing, attachedFile, pickerOpen,
           attachPickerOpen, dataset, sendOps, pickOps, reqs, nextTrace,
           nextFile, kept, logCall, logOut >>

\* The state of the component and the state of the logging module.
appVars == << messages, input, isProcessing, attachedFile, pickerOpen,
              attachPickerOpen, dataset, sendOps, pickOps, reqs, nextTrace,
              nextFile, kept >>
logVars == << logCall, logOut >>

\* ------------------------------------------------------------- helpers
RECURSIVE TrimStart(_)
TrimStart(s) ==
    IF s = <<>> THEN <<>>
    ELSE IF Head(s) = " " THEN TrimStart(Tail(s)) ELSE s

RECURSIVE TrimEnd(_)
TrimEnd(s) ==
    IF s = <<>> THEN <<>>
    ELSE IF s[Len(s)] = " " THEN TrimEnd(SubSeq(s, 1, Len(s) - 1)) ELSE s

\* String.prototype.trim
Trim(s) == TrimEnd(TrimStart(s))

\* One message of the conversation.  type is the field the component stores;
\* text names the template the text is built from and arg the value put in it;
\* by/op name the handler call that appended it and req the request whose
\* failure it reports (0 when none).
Msg(type, by, op, req, text, arg) ==
    [type |-> type, by |-> by, op |-> op, req |-> req, text |-> text, arg |-> arg]

\* One fetch.  hdr is the X-Trace-ID header (NoTrace when the header is absent),
\* file the File in a multipart body (NoFile for a JSON body), json the JSON body,
\* src the sendMessage call whose chat response supplied the url (for a chat
\* request: the call itself), outcome/fileId what the server answered.
Req(kind, by, op, url, hdr, file, json, mode, src) ==
    [kind |-> kind, by |-> by, op |-> op, url |-> url, hdr |-> hdr, file |-> file,
     json |-> json, mode |-> mode, src |-> src, outcome |-> "pending",
     fileId |-> "none"]

NoJson == [message |-> <<>>, has_attached_file |-> FALSE, status |-> "none",
           file_id |-> "none"]
ChatJson(m, h) == [NoJson EXCEPT !.message = m, !.has_attached_file = h]
CompleteJson(f) == [NoJson EXCEPT !.status = "success", !.file_id = f]

Resolved(r, outcome, fileId) ==
    [reqs EXCEPT ![r].outcome = outcome, ![r].fileId = fileId]

Pending == { r \in 1..Len(reqs) : reqs[r].outcome = "pending" }

\* No function of logging.js has been called.
NoCall == [fn |-> "none", url |-> <<>>, extra |-> <<>>, random |-> 0]

EmptyDataset ==
    [url |-> "none", uploadMode |-> "none", traceId |-> NoTrace, src |-> 0]

\* ---------------------------------------------------------------- Init
Init ==
    /\ messages = <<>>
    /\ input = <<>>
    /\ isProcessing = FALSE
    /\ attachedFile = NoFile
    /\ pickerOpen = FALSE
    /\ attachPickerOpen = FALSE
    /\ dataset = EmptyDataset
    /\ sendOps = <<>>
    /\ pickOps = <<>>
    /\ reqs = <<>>
    /\ nextTrace = 1
    /\ nextFile = 1
    /\ kept = NoFile
    /\ logCall = NoCall
    /\ logOut = <<>>

\* ------------------------------------------------------- user interface
\* onChange of the text input, which is disabled while isProcessing.
setInput(t) ==
    /\ ~isProcessing
    /\ t # input
    /\ input' = t
    /\ UNCHANGED << messages, isProcessing, attachedFile, pickerOpen,
                    attachPickerOpen, dataset, sendOps, pickOps, reqs, nextTrace,
                    nextFile, kept >>

\* The "+" button, disabled while isProcessing.
handleAttachFile ==
    /\ ~isProcessing
    /\ ~attachPickerOpen
    /\ attachPickerOpen' = TRUE
    /\ UNCHANGED << messages, input, isProcessing, attachedFile, pickerOpen,
                    dataset, sendOps, pickOps, reqs, nextTrace, nextFile, kept >>

Attaches ==
    Cardinality({ i \in 1..Len(messages) : messages[i].by = "handleAttachFileSelect" })

\* The user operations so far.
Ops == Len(sendOps) + Len(pickOps) + Attaches

\* Variant: handleAttachFileSelect that keeps a file already attached.
handleAttachFileSelect_KeepFirst ==
    /\ attachPickerOpen
    /\ Ops < MaxOps
    /\ attachedFile' = IF attachedFile = NoFile THEN nextFile ELSE attachedFile
    /\ kept' = nextFile
    /\ nextFile' = nextFile + 1
    /\ messages' = Append(messages,
           Msg("system", "handleAttachFileSelect", nextFile, 0, "attached", nextFile))
    /\ attachPickerOpen' = FALSE
    /\ UNCHANGED << input, isProcessing, pickerOpen, dataset, sendOps, pickOps,
                    reqs, nextTrace >>

\* change event of the attach input with a file chosen.
handleAttachFileSelect ==
    /\ attachPickerOpen
    /\ Ops < MaxOps
    /\ attachedFile' = nextFile
    /\ kept' = nextFile
    /\ nextFile' = nextFile + 1
    /\ messages' = Append(messages,
           Msg("system", "handleAttachFileSelect", nextFile, 0, "attached", nextFile))
    /\ attachPickerOpen' = FALSE
    /\ UNCHANGED << input, isProcessing, pickerOpen, dataset, sendOps, pickOps,
                    reqs, nextTrace >>

\* change event of the attach input with no file chosen.
handleAttachFileSelectNone ==
    /\ attachPickerOpen
    /\ attachPickerOpen' = FALSE
    /\ UNCHANGED << messages, input, isProcessing, attachedFile, pickerOpen,
                    dataset, sendOps, pickOps, reqs, nextTrace, nextFile, kept >>

\* The remove button, rendered while a file is attached.
removeAttachedFile ==
    /\ attachedFile # NoFile
    /\ attachedFile' = NoFile
    /\ kept' = NoFile
    /\ UNCHANGED << messages, input, isProcessing, pickerOpen, attachPickerOpen,
                    dataset, sendOps, pickOps, reqs, nextTrace, nextFile >>

\* ---------------------------------------------------------- sendMessage
\* Variant: sendMessage whose guard tests the text without trimming it.
sendMessage_NoTrim ==
    /\ Ops < MaxOps
    /\ IF input = <<>> \/ isProcessing
       THEN UNCHANGED vars
       ELSE LET s == Len(sendOps) + 1
                traceId == nextTrace
                r == Len(reqs) + 1
            IN /\ nextTrace' = nextTrace + 1
               /\ input' = <<>>
               /\ messages' = Append(messages,
                      Msg("user", "sendMessage", s, 0,
                          IF attachedFile # NoFile THEN "text_file_attached" ELSE "text",
                          attachedFile))
               /\ isProcessing' = TRUE
               /\ reqs' = Append(reqs,
                      Req("chat", "sendMessage", s, ChatUrl, traceId, NoFile,
                          ChatJson(Trim(input), attachedFile # NoFile), "none", s))
               /\ sendOps' = Append(sendOps,
                      [pc |-> "chat", traceId |-> traceId, attachedFile |-> attachedFile,
                       req |-> r, elicitation |-> NoElicitation])
               /\ UNCHANGED << attachedFile, pickerOpen, attachPickerOpen, dataset,
                               pickOps, nextFile, kept >>

\* sendMessage up to its first await (the chat fetch).  The guard is the
\* function's own; the closure keeps the attachedFile of the render it ran in.
sendMessage ==
    /\ Ops < MaxOps
    /\ IF Trim(input) = <<>> \/ isProcessing
       THEN UNCHANGED vars
       ELSE LET s == Len(sendOps) + 1
                traceId == nextTrace
                r == Len(reqs) + 1
            IN /\ nextTrace' = nextTrace + 1
               /\ input' = <<>>
               /\ messages' = Append(messages,
                      Msg("user", "sendMessage", s, 0,
                          IF attachedFile # NoFile THEN "text_file_attached" ELSE "text",
                          attachedFile))
               /\ isProcessing' = TRUE
               /\ reqs' = Append(reqs,
                      Req("chat", "sendMessage", s, ChatUrl, traceId, NoFile,
                          ChatJson(Trim(input), attachedFile # NoFile), "none", s))
               /\ sendOps' = Append(sendOps,
                      [pc |-> "chat", traceId |-> traceId, attachedFile |-> attachedFile,
                       req |-> r, elicitation |-> NoElicitation])
               /\ UNCHANGED << attachedFile, pickerOpen, attachPickerOpen, dataset,
                               pickOps, nextFile, kept >>

\* Variant: handleElicitation that leaves the picker closed while a file is
\* attached.
handleElicitation_SkipWhenAttached(elicitation, traceId, s) ==
    IF elicitation.mode = "url" /\ attachedFile = NoFile
    THEN /\ pickerOpen' = TRUE
         /\ dataset' = [url |-> elicitation.url, uploadMode |-> "ui",
                        traceId |-> traceId, src |-> s]
    ELSE UNCHANGED << pickerOpen, dataset >>

\* handleElicitation: click() on the file input, then the four dataset writes.
handleElicitation(elicitation, traceId, s) ==
    IF elicitation.mode = "url"
    THEN /\ pickerOpen' = TRUE
         /\ dataset' = [url |-> elicitation.url, uploadMode |-> "ui",
                        traceId |-> traceId, src |-> s]
    ELSE UNCHANGED << pickerOpen, dataset >>

\* Variant: handleStreamUpload that leaves dataset.traceId as it was.
handleStreamUpload_StaleTrace(streamData, traceId, s) ==
    /\ pickerOpen' = TRUE
    /\ dataset' = [url |-> streamData.url, uploadMode |-> "stream",
                   traceId |-> dataset.traceId, src |-> s]

\* handleStreamUpload: the same with uploadMode 'stream'.
handleStreamUpload(streamData, traceId, s) ==
    /\ pickerOpen' = TRUE
    /\ dataset' = [url |-> streamData.url, uploadMode |-> "stream",
                   traceId |-> traceId, src |-> s]

\* Variant: the catch block of sendMessage without the finally block.
sendMessageCatch_NoFinally(s, outcome) ==
    /\ messages' = Append(messages,
           Msg("error", "sendMessage", s, sendOps[s].req,
               IF outcome = "net" THEN "connection_refused" ELSE "error_http", outcome))
    /\ sendOps' = [sendOps EXCEPT ![s].pc = "done"]
    /\ reqs' = Resolved(sendOps[s].req, outcome, "none")
    /\ UNCHANGED << input, isProcessing, attachedFile, pickerOpen, attachPickerOpen,
                    dataset, pickOps, nextTrace, nextFile, kept >>

\* The catch block of sendMessage for a failed chat request, then finally.
sendMessageCatch(s, outcome) ==
    /\ messages' = Append(messages,
           Msg("error", "sendMessage", s, sendOps[s].req,
               IF outcome = "net" THEN "connection_refused" ELSE "error_http", outcome))
    /\ isProcessing' = FALSE
    /\ sendOps' = [sendOps EXCEPT ![s].pc = "done"]
    /\ reqs' = Resolved(sendOps[s].req, outcome, "none")
    /\ UNCHANGED << input, attachedFile, pickerOpen, attachPickerOpen, dataset,
                    pickOps, nextTrace, nextFile, kept >>

\* Variant: sendMessage that starts the auto-upload before it appends the
\* assistant message of the chat response.
sendMessageDispatch_UploadFirst(s, e) ==
    LET op == sendOps[s]
        chatMsg == Msg("assistant", "sendMessage", s, 0, "chat_response", 0)
    IN /\ reqs' = IF e.type = "stream_upload" /\ e.mode = "stream"
                     /\ op.attachedFile # NoFile
                  THEN Append(Resolved(op.req, "ok", "none"),
                              Req("upload", "uploadFileToStreamUrl", s, e.url, NoTrace,
                                  op.attachedFile, NoJson, "stream", s))
                  ELSE Resolved(op.req, "ok", "none")
       /\ messages' = IF e.type = "stream_upload" /\ e.mode = "stream"
                         /\ op.attachedFile # NoFile
                      THEN messages
                      ELSE Append(messages, chatMsg)
       /\ IF e.type = "elicitation" /\ e.mode = "url"
          THEN /\ handleElicitation(e, op.traceId, s)
               /\ isProcessing' = FALSE
               /\ sendOps' = [sendOps EXCEPT ![s].pc = "done", ![s].elicitation = e]
          ELSE IF e.type = "stream_upload" /\ e.mode = "stream"
          THEN IF op.attachedFile # NoFile
               THEN \* uploadFileToStreamUrl up to its fetch
                    /\ isProcessing' = TRUE
                    /\ sendOps' = [sendOps EXCEPT ![s].pc = "auto",
                                                  ![s].req = Len(reqs) + 1,
                                                  ![s].elicitation = e]
                    /\ UNCHANGED << pickerOpen, dataset >>
               ELSE /\ handleStreamUpload(e, op.traceId, s)
                    /\ isProcessing' = FALSE
                    /\ sendOps' = [sendOps EXCEPT ![s].pc = "done",
                                                  ![s].elicitation = e]
          ELSE /\ isProcessing' = FALSE
               /\ sendOps' = [sendOps EXCEPT ![s].pc = "done", ![s].elicitation = e]
               /\ UNCHANGED << pickerOpen, dataset >>
       /\ UNCHANGED << input, attachedFile, attachPickerOpen, pickOps, nextTrace,
                       nextFile, kept >>

\* Variant: sendMessage that dispatches on the mode of the directive alone.
sendMessageDispatch_ModeOnly(s, e) ==
    LET op == sendOps[s]
        chatMsg == Msg("assistant", "sendMessage", s, 0, "chat_response", 0)
    IN /\ reqs' = IF e.mode = "stream" /\ op.attachedFile # NoFile
                  THEN Append(Resolved(op.req, "ok", "none"),
                              Req("upload", "uploadFileToStreamUrl", s, e.url, NoTrace,
                                  op.attachedFile, NoJson, "stream", s))
                  ELSE Resolved(op.req, "ok", "none")
       /\ messages' = Append(messages, chatMsg)
       /\ IF e.mode = "url"
          THEN /\ handleElicitation(e, op.traceId, s)
               /\ isProcessing' = FALSE
               /\ sendOps' = [sendOps EXCEPT ![s].pc = "done", ![s].elicitation = e]
          ELSE IF e.mode = "stream"
          THEN IF op.attachedFile # NoFile
               THEN /\ isProcessing' = TRUE
                    /\ sendOps' = [sendOps EXCEPT ![s].pc = "auto",
                                                  ![s].req = Len(reqs) + 1,
                                                  ![s].elicitation = e]
                    /\ UNCHANGED << pickerOpen, dataset >>
               ELSE /\ handleStreamUpload(e, op.traceId, s)
                    /\ isProcessing' = FALSE
                    /\ sendOps' = [sendOps EXCEPT ![s].pc = "done",
                                                  ![s].elicitation = e]
          ELSE /\ isProcessing' = FALSE
               /\ sendOps' = [sendOps EXCEPT ![s].pc = "done", ![s].elicitation = e]
               /\ UNCHANGED << pickerOpen, dataset >>
       /\ UNCHANGED << input, attachedFile, attachPickerOpen, pickOps, nextTrace,
                       nextFile, kept >>

\* sendMessage from the chat response to its next await or its end.
sendMessageDispatch(s, e) ==
    LET op == sendOps[s]
        chatMsg == Msg("assistant", "sendMessage", s, 0, "chat_response", 0)
    IN /\ reqs' = IF e.type = "stream_upload" /\ e.mode = "stream"
                     /\ op.attachedFile # NoFile
                  THEN Append(Resolved(op.req, "ok", "none"),
                              Req("upload", "uploadFileToStreamUrl", s, e.url, NoTrace,
                                  op.attachedFile, NoJson, "stream", s))
                  ELSE Resolved(op.req, "ok", "none")
       /\ messages' = Append(messages, chatMsg)
       /\ IF e.type = "elicitation" /\ e.mode = "url"
          THEN /\ handleElicitation(e, op.traceId, s)
               /\ isProcessing' = FALSE
               /\ sendOps' = [sendOps EXCEPT ![s].pc = "done", ![s].elicitation = e]
          ELSE IF e.type = "stream_upload" /\ e.mode = "stream"
          THEN IF op.attachedFile # NoFile
               THEN \* uploadFileToStreamUrl up to its fetch
                    /\ isProcessing' = TRUE
                    /\ sendOps' = [sendOps EXCEPT ![s].pc = "auto",
                                                  ![s].req = Len(reqs) + 1,
                                                  ![s].elicitation = e]
                    /\ UNCHANGED << pickerOpen, dataset >>
               ELSE /\ handleStreamUpload(e, op.traceId, s)
                    /\ isProcessing' = FALSE
                    /\ sendOps' = [sendOps EXCEPT ![s].pc = "done",
                                                  ![s].elicitation = e]
          ELSE /\ isProcessing' = FALSE
               /\ sendOps' = [sendOps EXCEPT ![s].pc = "done", ![s].elicitation = e]
               /\ UNCHANGED << pickerOpen, dataset >>
       /\ UNCHANGED << input, attachedFile, attachPickerOpen, pickOps, nextTrace,
                       nextFile, kept >>

\* The chat fetch settles.
ChatResponse(s) ==
    /\ sendOps[s].pc = "chat"
    /\ \/ \E outcome \in Failures : sendMessageCatch(s, outcome)
       \/ \E e \in Elicitations \cup {NoElicitation} : sendMessageDispatch(s, e)

\* Variant: uploadFileToStreamUrl whose catch block appends nothing.
uploadFileToStreamUrl_Silent(s, outcome, fileId) ==
    LET op == sendOps[s]
    IN /\ messages' = IF outcome = "ok"
                      THEN Append(messages,
                               Msg("assistant", "uploadFileToStreamUrl", s, 0,
                                   "file_streamed", fileId))
                      ELSE messages
       /\ reqs' = Resolved(op.req, outcome, fileId)
       /\ isProcessing' = FALSE
       /\ attachedFile' = NoFile
       /\ kept' = IF outcome = "ok" /\ kept = op.attachedFile THEN NoFile ELSE kept
       /\ sendOps' = [sendOps EXCEPT ![s].pc = "done"]
       /\ UNCHANGED << input, pickerOpen, attachPickerOpen, dataset, pickOps,
                       nextTrace, nextFile >>

\* uploadFileToStreamUrl after its fetch settles, then the rest of sendMessage:
\* setAttachedFile(null) and the finally block.
uploadFileToStreamUrl(s, outcome, fileId) ==
    LET op == sendOps[s]
    IN /\ messages' = Append(messages,
              IF outcome = "ok"
              THEN Msg("assistant", "uploadFileToStreamUrl", s, 0, "file_streamed", fileId)
              ELSE Msg("error", "uploadFileToStreamUrl", s, op.req, "error_uploading",
                       outcome))
       /\ reqs' = Resolved(op.req, outcome, fileId)
       /\ isProcessing' = FALSE
       /\ attachedFile' = NoFile
       /\ kept' = IF outcome = "ok" /\ kept = op.attachedFile THEN NoFile ELSE kept
       /\ sendOps' = [sendOps EXCEPT ![s].pc = "done"]
       /\ UNCHANGED << input, pickerOpen, attachPickerOpen, dataset, pickOps,
                       nextTrace, nextFile >>

\* The auto-upload fetch settles.
AutoUploadResponse(s) ==
    /\ sendOps[s].pc = "auto"
    /\ \/ \E f \in FileIds : uploadFileToStreamUrl(s, "ok", f)
       \/ \E outcome \in Failures : uploadFileToStreamUrl(s, outcome, "none")

\* ----------------------------------------------------- handleFileSelect
\* Variant: handleFileSelect that sends X-Trace-ID for uploadMode 'ui' only.
handleFileSelect_HeaderUiOnly ==
    /\ pickerOpen
    /\ Ops < MaxOps
    /\ LET p == Len(pickOps) + 1
           file == nextFile
           uploadMode == IF dataset.uploadMode = "none" THEN "ui" ELSE dataset.uploadMode
           traceId == IF dataset.traceId = NoTrace THEN nextTrace ELSE dataset.traceId
       IN /\ nextTrace' = IF dataset.traceId = NoTrace THEN nextTrace + 1 ELSE nextTrace
          /\ nextFile' = nextFile + 1
          /\ messages' = Append(messages,
                 Msg("user", "handleFileSelect", p, 0, "selected_file", file))
          /\ isProcessing' = TRUE
          /\ reqs' = Append(reqs,
                 Req("upload", "handleFileSelect", p, dataset.url,
                     IF uploadMode = "ui" THEN traceId ELSE NoTrace, file,
                     NoJson, uploadMode, dataset.src))
          /\ pickOps' = Append(pickOps,
                 [pc |-> "upload", file |-> file, url |-> dataset.url,
                  uploadMode |-> uploadMode, traceId |-> traceId, src |-> dataset.src,
                  req |-> Len(reqs) + 1, upload |-> Len(reqs) + 1])
    /\ pickerOpen' = FALSE
    /\ UNCHANGED << input, attachedFile, attachPickerOpen, dataset, sendOps, kept >>

\* change event of the upload input with a file chosen: handleFileSelect up to
\* its first await (the upload fetch).  It reads the dataset as it is now.
handleFileSelect ==
    /\ pickerOpen
    /\ Ops < MaxOps
    /\ LET p == Len(pickOps) + 1
           file == nextFile
           uploadMode == IF dataset.uploadMode = "none" THEN "ui" ELSE dataset.uploadMode
           traceId == IF dataset.traceId = NoTrace THEN nextTrace ELSE dataset.traceId
       IN /\ nextTrace' = IF dataset.traceId = NoTrace THEN nextTrace + 1 ELSE nextTrace
          /\ nextFile' = nextFile + 1
          /\ messages' = Append(messages,
                 Msg("user", "handleFileSelect", p, 0, "selected_file", file))
          /\ isProcessing' = TRUE
          /\ reqs' = Append(reqs,
                 Req("upload", "handleFileSelect", p, dataset.url, traceId, file,
                     NoJson, uploadMode, dataset.src))
          /\ pickOps' = Append(pickOps,
                 [pc |-> "upload", file |-> file, url |-> dataset.url,
                  uploadMode |-> uploadMode, traceId |-> traceId, src |-> dataset.src,
                  req |-> Len(reqs) + 1, upload |-> Len(reqs) + 1])
    /\ pickerOpen' = FALSE
    /\ UNCHANGED << input, attachedFile, attachPickerOpen, dataset, sendOps, kept >>

\* Variant: handleFileSelect without its early return, uploading no file.
handleFileSelectNone_NoGuard ==
    /\ pickerOpen
    /\ Ops < MaxOps
    /\ messages' = Append(messages,
           Msg("user", "handleFileSelect", Len(pickOps) + 1, 0, "selected_file", NoFile))
    /\ isProcessing' = TRUE
    /\ reqs' = Append(reqs,
           Req("upload", "handleFileSelect", Len(pickOps) + 1, dataset.url,
               dataset.traceId, NoFile, NoJson, dataset.uploadMode, dataset.src))
    /\ pickOps' = Append(pickOps,
           [pc |-> "upload", file |-> NoFile, url |-> dataset.url,
            uploadMode |-> dataset.uploadMode, traceId |-> dataset.traceId,
            src |-> dataset.src, req |-> Len(reqs) + 1, upload |-> Len(reqs) + 1])
    /\ pickerOpen' = FALSE
    /\ UNCHANGED << input, attachedFile, attachPickerOpen, dataset, sendOps,
                    nextTrace, nextFile, kept >>

\* change event of the upload input with no file chosen: the early return.
handleFileSelectNone ==
    /\ pickerOpen
    /\ pickerOpen' = FALSE
    /\ UNCHANGED << messages, input, isProcessing, attachedFile, attachPickerOpen,
                    dataset, sendOps, pickOps, reqs, nextTrace, nextFile, kept >>

\* Variant: the catch block of handleFileSelect setting the list to the error
\* message alone.
handleFileSelectCatch_Overwrite(p, outcome) ==
    /\ messages' = << Msg("error", "handleFileSelect", p, pickOps[p].req,
                          "error_uploading", outcome) >>
    /\ isProcessing' = FALSE
    /\ pickOps' = [pickOps EXCEPT ![p].pc = "done"]
    /\ reqs' = Resolved(pickOps[p].req, outcome, "none")

\* The catch block of handleFileSelect, then finally.
handleFileSelectCatch(p, outcome) ==
    /\ messages' = Append(messages,
           Msg("error", "handleFileSelect", p, pickOps[p].req, "error_uploading",
               outcome))
    /\ isProcessing' = FALSE
    /\ pickOps' = [pickOps EXCEPT ![p].pc = "done"]
    /\ reqs' = Resolved(pickOps[p].req, outcome, "none")

\* Variant: handleFileSelect that sends the completion notice in either mode.
handleFileSelectUploaded_AlwaysNotify(p, fileId) ==
    LET op == pickOps[p]
    IN /\ messages' = Append(messages,
              Msg("assistant", "handleFileSelect", p, 0,
                  IF op.uploadMode = "stream" THEN "file_streamed" ELSE "file_uploaded",
                  fileId))
       /\ reqs' = Append(Resolved(op.req, "ok", fileId),
              Req("complete", "handleFileSelect", p, CompleteUrl, op.traceId,
                  NoFile, CompleteJson(fileId), op.uploadMode, op.src))
       /\ pickOps' = [pickOps EXCEPT ![p].pc = "complete", ![p].req = Len(reqs) + 1]
       /\ UNCHANGED isProcessing

\* Variant: handleFileSelect that puts the selected file in the body of the
\* completion notice.
handleFileSelectUploaded_NoticeWithFile(p, fileId) ==
    LET op == pickOps[p]
    IN /\ messages' = Append(messages,
              Msg("assistant", "handleFileSelect", p, 0,
                  IF op.uploadMode = "stream" THEN "file_streamed" ELSE "file_uploaded",
                  fileId))
       /\ IF op.uploadMode = "ui"
          THEN /\ reqs' = Append(Resolved(op.req, "ok", fileId),
                      Req("complete", "handleFileSelect", p, CompleteUrl, op.traceId,
                          op.file, CompleteJson(fileId), "ui", op.src))
               /\ pickOps' = [pickOps EXCEPT ![p].pc = "complete",
                                             ![p].req = Len(reqs) + 1]
               /\ UNCHANGED isProcessing
          ELSE /\ reqs' = Resolved(op.req, "ok", fileId)
               /\ pickOps' = [pickOps EXCEPT ![p].pc = "done"]
               /\ isProcessing' = FALSE

\* handleFileSelect after a 2xx upload response: the success message, then the
\* completion notice for uploadMode 'ui', else finally.
handleFileSelectUploaded(p, fileId) ==
    LET op == pickOps[p]
    IN /\ messages' = Append(messages,
              Msg("assistant", "handleFileSelect", p, 0,
                  IF op.uploadMode = "stream" THEN "file_streamed" ELSE "file_uploaded",
                  fileId))
       /\ IF op.uploadMode = "ui"
          THEN /\ reqs' = Append(Resolved(op.req, "ok", fileId),
                      Req("complete", "handleFileSelect", p, CompleteUrl, op.traceId,
                          NoFile, CompleteJson(fileId), "ui", op.src))
               /\ pickOps' = [pickOps EXCEPT ![p].pc = "complete",
                                             ![p].req = Len(reqs) + 1]
               /\ UNCHANGED isProcessing
          ELSE /\ reqs' = Resolved(op.req, "ok", fileId)
               /\ pickOps' = [pickOps EXCEPT ![p].pc = "done"]
               /\ isProcessing' = FALSE

\* The upload fetch of handleFileSelect settles.
UploadResponse(p) ==
    /\ pickOps[p].pc = "upload"
    /\ \/ \E f \in FileIds : handleFileSelectUploaded(p, f)
       \/ \E outcome \in Failures : handleFileSelectCatch(p, outcome)
    /\ UNCHANGED << input, attachedFile, pickerOpen, attachPickerOpen, dataset,
                    sendOps, nextTrace, nextFile, kept >>

\* handleFileSelect after the completion fetch: its response is not inspected,
\* so only a rejected fetch reaches the catch block.
handleFileSelectNotified(p, outcome) ==
    IF outcome = "net"
    THEN handleFileSelectCatch(p, outcome)
    ELSE /\ reqs' = Resolved(pickOps[p].req, outcome, "none")
         /\ pickOps' = [pickOps EXCEPT ![p].pc = "done"]
         /\ isProcessing' = FALSE
         /\ UNCHANGED messages

\* The completion-notice fetch settles.
CompleteResponse(p) ==
    /\ pickOps[p].pc = "complete"
    /\ \E outcome \in {"ok"} \cup Failures : handleFileSelectNotified(p, outcome)
    /\ UNCHANGED << input, attachedFile, pickerOpen, attachPickerOpen, dataset,
                    sendOps, nextTrace, nextFile, kept >>

Next ==
    \/ handleFileSelect /\ UNCHANGED logVars
    \/ handleFileSelectNone /\ UNCHANGED logVars
    \/ \E p \in 1..Len(pickOps) : UploadResponse(p) /\ UNCHANGED logVars
    \/ \E p \in 1..Len(pickOps) : CompleteResponse(p) /\ UNCHANGED logVars
    \/ \E t \in Inputs : setInput(t) /\ UNCHANGED logVars
    \/ sendMessage /\ UNCHANGED logVars
    \/ \E s \in 1..Len(sendOps) : ChatResponse(s) /\ UNCHANGED logVars
    \/ \E s \in 1..Len(sendOps) : AutoUploadResponse(s) /\ UNCHANGED logVars
    \/ handleAttachFile /\ UNCHANGED logVars
    \/ handleAttachFileSelect /\ UNCHANGED logVars
    \/ handleAttachFileSelectNone /\ UNCHANGED logVars
    \/ removeAttachedFile /\ UNCHANGED logVars

Spec == Init /\ [][Next]_vars

\* Every fetch settles: with a response or with a rejection.
Settle ==
    /\ \/ \E s \in 1..Len(sendOps) : ChatResponse(s)
       \/ \E s \in 1..Len(sendOps) : AutoUploadResponse(s)
       \/ \E p \in 1..Len(pickOps) : UploadResponse(p)
       \/ \E p \in 1..Len(pickOps) : CompleteResponse(p)
    /\ UNCHANGED logVars

LiveSpec == Spec /\ WF_vars(Settle)

\* ============================================================ logging.js
\* Strings are sequences of characters.  The texts given to the functions are
\* built from these characters.
Letters == { "a", "h", "t", "p" }
Chars == Letters \cup { ":", "/", "?", "#" }

\* The schemes the URL parser treats as special, of those the letters spell.
SpecialSchemes == { << "h", "t", "t", "p" >> }

\* The pieces a text is put together from, in this order.
SchemeParts == { <<>>, << "h", "t", "t", "p", ":" >>, << "a", ":" >>, << ":" >> }
SlashParts == { <<>>, << "/" >>, << "/", "/" >> }
HostParts == { <<>>, << "h" >>, << "h", ":" >>, << "h", ":", "a" >> }
PathParts == { <<>>, << "/" >>, << "/", "p" >> }
QueryParts == { <<>>, << "?", "t" >>, << "?", "t", "?", "a" >> }
FragmentParts == { <<>>, << "#", "?", "a" >> }

UrlInputs ==
    { sc \o sl \o h \o pa \o q \o f :
          sc \in SchemeParts, sl \in SlashParts, h \in HostParts,
          pa \in PathParts, q \in QueryParts, f \in FragmentParts }

\* The first position of s that holds a character of C, Len(s) + 1 when none.
IndexOf(s, C) ==
    IF \E i \in 1..Len(s) : s[i] \in C
    THEN CHOOSE i \in 1..Len(s) : s[i] \in C /\ \A j \in 1..(i - 1) : s[j] \notin C
    ELSE Len(s) + 1

\* s before the first character of C; s from position i on.
Before(s, C) == SubSeq(s, 1, IndexOf(s, C) - 1)
From(s, i) == SubSeq(s, i, Len(s))

\* String.prototype.includes
Includes(s, sub) ==
    \E i \in 1..(Len(s) - Len(sub) + 1) : SubSeq(s, i, i + Len(sub) - 1) = sub

\* The result of the URL parser on a text with no base URL: failure, or the
\* protocol, host and pathname of the URL record.
NotUrl == [ok |-> FALSE, protocol |-> <<>>, host |-> <<>>, pathname |-> <<>>]

\* An authority (host, then ":" and a port) and the path after it.  A port
\* takes digits only, a ":" needs a host before it, a special scheme needs a
\* host.
ParseAuthority(scheme, rest) ==
    LET authority == Before(rest, { "/" })
        path == From(rest, Len(authority) + 1)
        host == Before(authority, { ":" })
        port == From(authority, Len(host) + 2)
        special == scheme \in SpecialSchemes
    IN IF \/ port # <<>>
          \/ (host = <<>> /\ authority # <<>>)
          \/ (host = <<>> /\ special)
       THEN NotUrl
       ELSE [ok |-> TRUE, protocol |-> scheme \o << ":" >>, host |-> host,
             pathname |-> IF special /\ path = <<>> THEN << "/" >> ELSE path]

\* new URL(url)
ParseUrl(url) ==
    LET colon == IndexOf(url, Chars \ Letters)
        scheme == SubSeq(url, 1, colon - 1)
        \* what follows the scheme, up to the query or the fragment
        body == Before(From(url, colon + 1), { "?", "#" })
    IN IF colon = 1 \/ colon > Len(url) \/ url[colon] # ":"
       THEN NotUrl
       ELSE IF scheme \in SpecialSchemes
       THEN \* every leading slash is skipped, the authority follows
            ParseAuthority(scheme, From(body, IndexOf(body, Chars \ { "/" })))
       ELSE IF Len(body) >= 2 /\ body[1] = "/" /\ body[2] = "/"
       THEN ParseAuthority(scheme, From(body, 3))
       ELSE \* a path alone: no host
            [ok |-> TRUE, protocol |-> scheme \o << ":" >>, host |-> <<>>,
             pathname |-> body]

\* Variant: redactUrl whose fallback returns the text as it is.
redactUrl_FallbackWhole(url) ==
    LET urlObj == ParseUrl(url)
    IN IF urlObj.ok
       THEN urlObj.protocol \o << "/", "/" >> \o urlObj.host \o urlObj.pathname
       ELSE url

redactUrl(url) ==
    LET urlObj == ParseUrl(url)
    IN IF urlObj.ok
       THEN urlObj.protocol \o << "/", "/" >> \o urlObj.host \o urlObj.pathname
       ELSE Before(url, { "?" })          \* url.split('?')[0]

\* String.prototype.toLowerCase on the characters of the keys.
LowerOf(c) ==
    CASE c = "U" -> "u"
      [] c = "R" -> "r"
      [] c = "L" -> "l"
      [] OTHER -> c
ToLowerCase(s) == [i \in 1..Len(s) |-> LowerOf(s[i])]

\* The keys of the extras and their values.  A value is a string, or an object
\* whose conversion to a string gives text (a URL object gives its href), or
\* null.
Keys == { << "u", "r", "l" >>, << "s", "U", "R", "L" >>, << "m", "o", "d", "e" >> }
ValueTexts == { << "a", ":", "/", "p", "?", "t" >>, << "h", "?", "t" >> }
Values ==
    [type : { "string" }, text : ValueTexts]
        \cup { [type |-> "object", text |-> << "a", ":", "/", "p", "?", "t" >>],
               [type |-> "null", text |-> <<>>] }

MaxExtras == 2
Extras ==
    UNION { [1..n -> [key : Keys, value : Values]] : n \in 0..MaxExtras }

\* The optionalParts of logStructured for the entries of extra from i on.
RECURSIVE OptionalParts(_, _)
OptionalParts(extra, i) ==
    IF i > Len(extra)
    THEN <<>>
    ELSE LET key == extra[i].key
             value == extra[i].value
         IN IF value.type = "null"
            THEN OptionalParts(extra, i + 1)
            ELSE IF Includes(ToLowerCase(key), << "u", "r", "l" >>)
                    /\ value.type = "string"
            THEN << key \o << "=" >> \o redactUrl(value.text) >>
                     \o OptionalParts(extra, i + 1)
            ELSE << key \o << "=" >> \o value.text >>
                     \o OptionalParts(extra, i + 1)

\* logStructured: the key=value parts of the line it writes.
logStructured(extra) == OptionalParts(extra, 1)

\* Math.random() gives r / 2^RandomBits; the draws are the values with at most
\* MantissaBits significant bits.
RandomBits == 24
MantissaBits == 4
RandomDraws ==
    { m * 2^e : m \in 0..(2^MantissaBits - 1), e \in 0..(RandomBits - MantissaBits) }

Radix == 36
Digits ==
    << "0", "1", "2", "3", "4", "5", "6", "7", "8", "9", "a", "b", "c", "d", "e",
       "f", "g", "h", "i", "j", "k", "l", "m", "n", "o", "p", "q", "r", "s", "t",
       "u", "v", "w", "x", "y", "z" >>

\* The digits of n / d in the radix, n < d, to the last one that is not zero.
RECURSIVE Fraction(_, _)
Fraction(n, d) ==
    IF n = 0
    THEN <<>>
    ELSE << Digits[((n * Radix) \div d) + 1] >> \o Fraction((n * Radix) % d, d)

\* Number.prototype.toString(36) of r / 2^RandomBits
ToString36(r) ==
    IF r = 0 THEN << "0" >> ELSE << "0", "." >> \o Fraction(r, 2^RandomBits)

\* String.prototype.substring(start, end)
Substring(s, start, end) ==
    SubSeq(s, start + 1, IF end < Len(s) THEN end ELSE Len(s))

generateTraceId(r) == Substring(ToString36(r), 2, 10)

\* One call of each function of the module.
RedactUrlCall(url) ==
    /\ logCall' = [NoCall EXCEPT !.fn = "redactUrl", !.url = url]
    /\ logOut' = redactUrl(url)
    /\ UNCHANGED appVars

LogStructuredCall(extra) ==
    /\ logCall' = [NoCall EXCEPT !.fn = "logStructured", !.extra = extra]
    /\ logOut' = logStructured(extra)
    /\ UNCHANGED appVars

GenerateTraceIdCall(r) ==
    /\ logCall' = [NoCall EXCEPT !.fn = "generateTraceId", !.random = r]
    /\ logOut' = generateTraceId(r)
    /\ UNCHANGED appVars

LogNext ==
    \/ \E url \in UrlInputs : RedactUrlCall(url)
    \/ \E extra \in Extras : LogStructuredCall(extra)
    \/ \E r \in RandomDraws : GenerateTraceIdCall(r)

LogSpec == Init /\ [][LogNext]_vars

\* ================================================================ claims

\* C1: isProcessing is true exactly while a request issued by sendMessage,
\* handleFileSelect or the auto-upload is pending.
C1_BusyIffPending == isProcessing <=> (Pending # {})

\* C2: never are two requests pending at the same time.
C2_AtMostOnePending == Cardinality(Pending) <= 1

\* C3: once isProcessing is true, and every request settling, isProcessing
\* becomes false again with no request pending.
C3_BusyReleased == isProcessing ~> (~isProcessing /\ Pending = {})

\* The flag is down again after a failed and after a successful request.
C3_Witness ==
    /\ ~isProcessing
    /\ Pending = {}
    /\ \E r \in 1..Len(reqs) : reqs[r].outcome \in Failures
    /\ \E r \in 1..Len(reqs) : reqs[r].outcome = "ok"

\* ---- C4
\* Messages of sendMessage call s with a type in T, appended by handler `by`.
MsgsOf(s, by, T) ==
    Cardinality({ i \in 1..Len(messages) :
        messages[i].by = by /\ messages[i].op = s /\ messages[i].type \in T })

Terminal == {"assistant", "error"}

\* The call went on to upload the file attached when it was made.
AutoUploaded(s) ==
    /\ sendOps[s].elicitation.type = "stream_upload"
    /\ sendOps[s].elicitation.mode = "stream"
    /\ sendOps[s].attachedFile # NoFile

\* C4 as stated: an accepted sendMessage appends one user message with the chat
\* request and, once the operation is over, exactly one assistant or error
\* message, whatever the response.
C4_OneUserOneTerminal ==
    \A s \in 1..Len(sendOps) :
        /\ MsgsOf(s, "sendMessage", {"user"}) = 1
        /\ sendOps[s].pc = "chat" =>
               MsgsOf(s, "sendMessage", Terminal)
                   + MsgsOf(s, "uploadFileToStreamUrl", Terminal) = 0
        /\ sendOps[s].pc = "done" =>
               MsgsOf(s, "sendMessage", Terminal)
                   + MsgsOf(s, "uploadFileToStreamUrl", Terminal) = 1

\* C4 as amended: an accepted sendMessage appends one user message with the chat
\* request and one assistant or error message when the chat request settles; a
\* stream directive received with a file attached adds exactly one more
\* assistant or error message when the auto-upload settles, and nothing else does.
C4_OneTerminalPerRequest ==
    \A s \in 1..Len(sendOps) :
        /\ MsgsOf(s, "sendMessage", {"user"}) = 1
        /\ MsgsOf(s, "sendMessage", Terminal) =
               (IF sendOps[s].pc = "chat" THEN 0 ELSE 1)
        /\ MsgsOf(s, "uploadFileToStreamUrl", Terminal) =
               (IF sendOps[s].pc = "done" /\ AutoUploaded(s) THEN 1 ELSE 0)

\* Two calls are over: one whose auto-upload failed, one with no auto-upload.
C4_Witness ==
    /\ \E s \in 1..Len(sendOps) :
           /\ sendOps[s].pc = "done"
           /\ AutoUploaded(s)
           /\ reqs[sendOps[s].req].outcome \in Failures
    /\ \E s \in 1..Len(sendOps) : sendOps[s].pc = "done" /\ ~AutoUploaded(s)

\* ---- C5
Uploads == { r \in 1..Len(reqs) : reqs[r].kind = "upload" }
Completes == { r \in 1..Len(reqs) : reqs[r].kind = "complete" }

\* The completion notices sent on behalf of upload u.
NoticesOf(u) ==
    { c \in Completes : /\ reqs[u].by = "handleFileSelect"
                        /\ reqs[c].op = reqs[u].op }

\* The mode of the directive whose url upload u is addressed to.
OriginMode(u) ==
    IF reqs[u].src \in 1..Len(sendOps)
    THEN sendOps[reqs[u].src].elicitation.mode
    ELSE "none"

\* C5: a successful upload for a mode "url" elicitation causes exactly one
\* completion notice, carrying the upload's file_id; an upload for a stream
\* directive, a failed upload and a pending upload cause none.
C5_CompletionAsymmetry ==
    /\ \A u \in Uploads :
           IF OriginMode(u) = "url" /\ reqs[u].outcome = "ok"
           THEN /\ Cardinality(NoticesOf(u)) = 1
                /\ \A c \in NoticesOf(u) :
                       /\ reqs[c].url = CompleteUrl
                       /\ reqs[c].json.file_id = reqs[u].fileId
                       /\ reqs[c].json.status = "success"
           ELSE NoticesOf(u) = {}
    /\ \A c \in Completes : \E u \in Uploads : c \in NoticesOf(u)

\* A url-mode upload has succeeded and its completion notice has been sent.
C5_Witness ==
    \E u \in Uploads : /\ OriginMode(u) = "url"
                        /\ reqs[u].outcome = "ok"
                        /\ NoticesOf(u) # {}

\* ---- C6
\* An auto-upload request settles with success in this step.
AutoUploadSucceeds ==
    \E r \in 1..Len(reqs) :
        /\ reqs[r].by = "uploadFileToStreamUrl"
        /\ reqs[r].outcome = "pending"
        /\ reqs'[r].outcome = "ok"

\* C6: attachedFile goes from a file to empty only in removeAttachedFile or when
\* an auto-upload succeeds; a failed auto-upload leaves the file attached.
C6_ClearedOnlyOnSuccess ==
    [][ (attachedFile # NoFile /\ attachedFile' = NoFile)
            => (removeAttachedFile \/ AutoUploadSucceeds) ]_vars

\* ---- C7
\* C7: every failed request has its error message in the conversation, and no
\* handler call issues the same kind of request twice.
C7_FailureBecomesError ==
    /\ \A r \in 1..Len(reqs) :
           reqs[r].outcome \in Failures =>
               Cardinality({ i \in 1..Len(messages) :
                   messages[i].type = "error" /\ messages[i].req = r }) = 1
    /\ \A r1, r2 \in 1..Len(reqs) :
           (/\ reqs[r1].by = reqs[r2].by
            /\ reqs[r1].op = reqs[r2].op
            /\ reqs[r1].kind = reqs[r2].kind) => r1 = r2

\* ---- C8
\* C8 as stated: an upload carries X-Trace-ID exactly when it is a UI-mode upload.
C8_HeaderIffUiMode ==
    \A u \in Uploads : (reqs[u].hdr # NoTrace) <=> (reqs[u].mode = "ui")

\* C8 as amended: an upload carries X-Trace-ID exactly when handleFileSelect
\* issued it, in either mode; the auto-upload of the attached file omits it.
C8_HeaderIffPicker ==
    \A u \in Uploads : (reqs[u].hdr # NoTrace) <=> (reqs[u].by = "handleFileSelect")

\* A stream-mode upload has been issued from the picker.
C8_Witness ==
    \E u \in Uploads : reqs[u].by = "handleFileSelect" /\ reqs[u].mode = "stream"

\* ---- C9
\* C9: the chat request of a sendMessage call, and the picker upload and the
\* completion notice addressed through its directive, carry the trace id that
\* call generated; no request of another call carries it.
C9_TraceThreading ==
    /\ \A r \in 1..Len(reqs) :
           reqs[r].by \in {"sendMessage", "handleFileSelect"} =>
               /\ reqs[r].src \in 1..Len(sendOps)
               /\ reqs[r].hdr = sendOps[reqs[r].src].traceId
    /\ \A r1, r2 \in 1..Len(reqs) :
           (reqs[r1].hdr # NoTrace /\ reqs[r1].hdr = reqs[r2].hdr) =>
               reqs[r1].src = reqs[r2].src

\* A file is uploaded through the directive of the second of two calls, the
\* first having stashed a directive too.
C9_Witness ==
    \E u \in Uploads :
        /\ reqs[u].by = "handleFileSelect"
        /\ reqs[u].src = 2
        /\ sendOps[1].elicitation.mode = "url"
        /\ sendOps[1].elicitation.type = "elicitation"

\* ---- C10
\* A file is chosen in the attach picker in this step.
AttachStep == attachPickerOpen /\ ~attachPickerOpen' /\ nextFile' # nextFile

\* C10: a file that is attached is always the file last attached, neither
\* removed nor uploaded since; choosing a file in the attach picker puts that
\* file in the slot whatever the slot held, appends exactly one system message
\* and issues no request.
C10_AttachReplaces ==
    /\ [](attachedFile # NoFile => attachedFile = kept)
    /\ [][ AttachStep =>
             /\ attachedFile' = nextFile
             /\ Len(messages') = Len(messages) + 1
             /\ SubSeq(messages', 1, Len(messages)) = messages
             /\ messages'[Len(messages')].type = "system"
             /\ messages'[Len(messages')].arg = nextFile
             /\ reqs' = reqs ]_vars

\* A second file has been attached over the first.
C10_Witness ==
    /\ attachedFile = 2
    /\ Cardinality({ i \in 1..Len(messages) : messages[i].type = "system" }) = 2
    /\ reqs = <<>>

\* ---- C11
\* The chat response of call s arrives in this step with a stream directive.
StreamReceipt(s) ==
    /\ sendOps[s].pc = "chat"
    /\ sendOps'[s].pc # "chat"
    /\ sendOps'[s].elicitation.type = "stream_upload"
    /\ sendOps'[s].elicitation.mode = "stream"

\* The upload requests issued by handleFileSelect call p.
UploadsOf(p) ==
    { u \in Uploads : reqs[u].by = "handleFileSelect" /\ reqs[u].op = p }

\* C11: a stream directive received while no file is attached opens the picker;
\* a file then selected causes exactly one multipart upload, addressed to the
\* url of that directive, and a 2xx answer adds one assistant message with the
\* returned file_id.
C11_StreamPickerFlow ==
    /\ [][ \A s \in 1..Len(sendOps) :
             (StreamReceipt(s) /\ attachedFile = NoFile) =>
                 /\ pickerOpen'
                 /\ dataset'.url = sendOps'[s].elicitation.url
                 /\ reqs'[Len(reqs')].kind # "upload" ]_vars
    /\ [](\A p \in 1..Len(pickOps) :
             pickOps[p].uploadMode = "stream" =>
                 /\ Cardinality(UploadsOf(p)) = 1
                 /\ \A u \in UploadsOf(p) :
                        /\ reqs[u].file = pickOps[p].file
                        /\ reqs[u].src \in 1..Len(sendOps)
                        /\ reqs[u].url = sendOps[reqs[u].src].elicitation.url
                        /\ reqs[u].outcome = "ok" =>
                               Cardinality({ i \in 1..Len(messages) :
                                   /\ messages[i].type = "assistant"
                                   /\ messages[i].by = "handleFileSelect"
                                   /\ messages[i].op = p
                                   /\ messages[i].arg = reqs[u].fileId }) = 1)

\* ---- C12
\* The chat request of sendMessage call s.
ChatReqOf(s) ==
    CHOOSE c \in 1..Len(reqs) : reqs[c].kind = "chat" /\ reqs[c].op = s

\* The assistant messages call s appended for its chat response.
ChatMsgsOf(s) ==
    { i \in 1..Len(messages) : /\ messages[i].by = "sendMessage"
                               /\ messages[i].op = s
                               /\ messages[i].type = "assistant" }

\* The messages appended by the handler call that issued upload u.
UploadMsgsOf(u) ==
    { i \in 1..Len(messages) : /\ messages[i].by = reqs[u].by
                               /\ messages[i].op = reqs[u].op }

\* C12: when an upload (from the picker or automatic) is issued, the chat
\* request that supplied its url has been answered and the assistant message
\* of that answer is in the conversation, ahead of every message of the
\* upload; the two requests are never pending together.
C12_UploadAfterChat ==
    \A u \in Uploads :
        /\ reqs[u].src \in 1..Len(sendOps)
        /\ LET c == ChatReqOf(reqs[u].src)
           IN /\ c < u
              /\ reqs[c].outcome = "ok"
              /\ reqs[u].url = sendOps[reqs[u].src].elicitation.url
              /\ ChatMsgsOf(reqs[u].src) # {}
              /\ \A i \in ChatMsgsOf(reqs[u].src) :
                     \A k \in UploadMsgsOf(u) : reqs[u].by = "handleFileSelect" => i < k

\* An auto-upload is pending.
C12_Witness ==
    \E u \in Uploads : /\ reqs[u].by = "uploadFileToStreamUrl"
                       /\ reqs[u].outcome = "pending"

\* ---- C13
\* What a call that had nothing to do must leave alone.
NothingDone == UNCHANGED << messages, attachedFile, isProcessing, reqs >>

\* The upload picker closes in this step with no file chosen.
PickNoneStep == pickerOpen /\ ~pickerOpen' /\ nextFile' = nextFile

\* The attach picker closes in this step with no file chosen.
AttachNoneStep == attachPickerOpen /\ ~attachPickerOpen' /\ nextFile' = nextFile

\* C13: sendMessage with empty or blank text or while isProcessing, and a
\* change event of either file input with no file, leave messages,
\* attachedFile and isProcessing as they were and issue no request.
C13_MissingInputNoOp ==
    [][ /\ (sendMessage /\ (Trim(input) = <<>> \/ isProcessing)) => NothingDone
        /\ PickNoneStep => NothingDone
        /\ AttachNoneStep => NothingDone ]_vars

\* The text is blank and not empty, and a picker opened by a directive was
\* closed with no file chosen.
C13_Witness ==
    /\ input # <<>>
    /\ Trim(input) = <<>>
    /\ dataset # EmptyDataset
    /\ ~pickerOpen
    /\ pickOps = <<>>

\* ---- C14
\* No upload and no completion notice has been issued through the directive
\* of call s.
NoUploadFor(s) ==
    \A r \in 1..Len(reqs) : reqs[r].src = s => reqs[r].kind = "chat"

\* Call s is over, its directive has no upload, and no picker is open for it.
Abandoned(s) ==
    /\ s \in 1..Len(sendOps)
    /\ sendOps[s].pc = "done"
    /\ ~pickerOpen \/ dataset.src # s
    /\ NoUploadFor(s)

\* Every handler call is over.
AllDone ==
    /\ \A s \in 1..Len(sendOps) : sendOps[s].pc = "done"
    /\ \A p \in 1..Len(pickOps) : pickOps[p].pc = "done"

\* C14 as stated: once the picker a directive opened is closed with no file,
\* isProcessing is false and no request is pending, and no upload or
\* completion notice is ever issued for that directive.
C14_ClosedPickerIdle ==
    [][ /\ PickNoneStep => (~isProcessing' /\ Pending' = {})
        /\ \A s \in 1..Len(sendOps) : Abandoned(s) => Abandoned(s)' ]_vars

\* C14 as amended: closing the picker with no file changes neither
\* isProcessing nor the requests and leaves the stash in place; the call that
\* received the directive is over, and the orchestrator is idle unless another
\* call was started while the picker was open; no upload or completion notice
\* is ever issued for that directive.
C14_ClosedPickerStartsNothing ==
    [][ /\ PickNoneStep =>
              /\ NothingDone
              /\ dataset' = dataset
              /\ Abandoned(dataset.src)'
              /\ AllDone => (~isProcessing' /\ Pending' = {})
        /\ \A s \in 1..Len(sendOps) : Abandoned(s) => Abandoned(s)' ]_vars

\* The picker of the first call's directive was closed with no file; the stash
\* is still there and nothing is in progress.
C14_Witness ==
    /\ Abandoned(1)
    /\ dataset.src = 1
    /\ ~pickerOpen
    /\ ~isProcessing
    /\ Pending = {}

\* ---- C15
MessageKinds == {"user", "assistant", "system", "error"}

\* C15: every step leaves the messages it found in place and in order, adding
\* at the end only, and every message is of kind user, assistant, system or
\* error.
C15_AppendOnly ==
    /\ [][ /\ Len(messages') >= Len(messages)
           /\ SubSeq(messages', 1, Len(messages)) = messages ]_vars
    /\ [](\A i \in 1..Len(messages) : messages[i].type \in MessageKinds)

\* The conversation holds a message of each kind.
C15_Witness ==
    \A k \in MessageKinds : \E i \in 1..Len(messages) : messages[i].type = k

\* ---- C18
\* C18: when a stream directive arrives and a file is attached, the step
\* issues one upload of that file to the url of the directive and leaves the
\* picker as it was; when no file is attached, the step opens the picker and
\* issues no request.
C18_StreamDispatch ==
    [][ \A s \in 1..Len(sendOps) :
          StreamReceipt(s) =>
              IF attachedFile # NoFile
              THEN /\ Len(reqs') = Len(reqs) + 1
                   /\ reqs'[Len(reqs')].kind = "upload"
                   /\ reqs'[Len(reqs')].file = attachedFile
                   /\ reqs'[Len(reqs')].url = sendOps'[s].elicitation.url
                   /\ pickerOpen' = pickerOpen
              ELSE /\ pickerOpen'
                   /\ Len(reqs') = Len(reqs) ]_vars

\* ---- C19
\* An auto-upload request is issued in this step.
AutoUploadStarts ==
    /\ Len(reqs') = Len(reqs) + 1
    /\ reqs'[Len(reqs')].by = "uploadFileToStreamUrl"

\* C19: the file an auto-upload sends is the file in the attachedFile slot when
\* the upload starts; with the slot empty no auto-upload starts.
C19_ConsumesCurrentSlot ==
    [][ AutoUploadStarts =>
            /\ attachedFile # NoFile
            /\ reqs'[Len(reqs')].file = attachedFile ]_vars

\* ---- C20
AiServiceUrls == { ChatUrl, CompleteUrl }

\* C20: a request to the chat or completion endpoint has a JSON body and no
\* file: message and has_attached_file for chat, status and file_id for the
\* completion notice; a request that carries a file is an upload addressed to
\* the url of the directive that caused it.
C20_NoFileToAiService ==
    \A r \in 1..Len(reqs) :
        /\ reqs[r].kind \in {"chat", "complete"} <=> reqs[r].url \in AiServiceUrls
        /\ reqs[r].url \in AiServiceUrls => reqs[r].file = NoFile
        /\ reqs[r].kind = "chat" =>
               /\ reqs[r].url = ChatUrl
               /\ reqs[r].json = ChatJson(reqs[r].json.message,
                                          reqs[r].json.has_attached_file)
        /\ reqs[r].kind = "complete" =>
               /\ reqs[r].url = CompleteUrl
               /\ reqs[r].json = CompleteJson(reqs[r].json.file_id)
        /\ reqs[r].file # NoFile =>
               /\ reqs[r].kind = "upload"
               /\ reqs[r].json = NoJson
               /\ reqs[r].src \in 1..Len(sendOps)
               /\ reqs[r].url = sendOps[reqs[r].src].elicitation.url

\* A chat request was sent with a file attached, and a completion notice was
\* sent for a file selected in the picker.
C20_Witness ==
    /\ \E r \in 1..Len(reqs) : /\ reqs[r].kind = "chat"
                               /\ reqs[r].json.has_attached_file
    /\ \E r \in 1..Len(reqs) : reqs[r].kind = "complete"

\* ---- C16
\* redactUrl gives protocol, "//", host and pathname of a text that parses as a
\* URL and the text before its first "?" otherwise; no "?" is left either way.
RedactUrlStripsQuery ==
    logCall.fn = "redactUrl" =>
        /\ "?" \notin { logOut[i] : i \in 1..Len(logOut) }
        /\ LET urlObj == ParseUrl(logCall.url)
           IN IF urlObj.ok
              THEN logOut = urlObj.protocol \o << "/", "/" >> \o urlObj.host
                                \o urlObj.pathname
              ELSE logOut = Before(logCall.url, { "?" })

\* No part of the line whose key contains "url" in any case has a "?" in it.
UrlKeysRedacted ==
    logCall.fn = "logStructured" =>
        \A i \in 1..Len(logOut) :
            Includes(ToLowerCase(Before(logOut[i], { "=" })), << "u", "r", "l" >>)
                => "?" \notin { logOut[i][j] : j \in 1..Len(logOut[i]) }

\* C16: redactUrl never lets a query string through, whether the text parses
\* as a URL or not, and logStructured writes no extra value under a key that
\* contains "url" with its query string.
C16_QueryNeverLogged == RedactUrlStripsQuery /\ UrlKeysRedacted

\* An entry of the extras that is neither null nor undefined.
IsGiven(entry) == entry.value.type # "null"

\* C16 (amended): redactUrl never lets a query string through, and
\* logStructured writes one part per given entry of the extras, in their order,
\* with no "?" in the part of a string value under a key that contains "url" in
\* any case; a value that is not a string is written as it converts.
C16_StringValuesRedacted ==
    /\ RedactUrlStripsQuery
    /\ logCall.fn = "logStructured" =>
           LET given == SelectSeq(logCall.extra, IsGiven)
           IN /\ Len(logOut) = Len(given)
              /\ \A i \in 1..Len(given) :
                     LET key == given[i].key
                         value == given[i].value
                     IN IF Includes(ToLowerCase(key), << "u", "r", "l" >>)
                           /\ value.type = "string"
                        THEN /\ logOut[i] = key \o << "=" >> \o redactUrl(value.text)
                             /\ "?" \notin { logOut[i][j] : j \in 1..Len(logOut[i]) }
                        ELSE logOut[i] = key \o << "=" >> \o value.text

\* A line was written for a string with a query under a key with "URL" in
\* capitals, after a null entry.
C16_Witness ==
    /\ logCall.fn = "logStructured"
    /\ Len(logCall.extra) = 2
    /\ ~IsGiven(logCall.extra[1])
    /\ logCall.extra[2].key = << "s", "U", "R", "L" >>
    /\ logCall.extra[2].value.type = "string"
    /\ "?" \in { logCall.extra[2].value.text[j] :
                     j \in 1..Len(logCall.extra[2].value.text) }
    /\ Len(logOut) = 1

\* ---- C17
\* C17: generateTraceId returns exactly 8 characters, each a digit or a letter,
\* whatever Math.random() gave.
C17_EightAlphanumerics ==
    logCall.fn = "generateTraceId" =>
        /\ Len(logOut) = 8
        /\ \A i \in 1..Len(logOut) : \E d \in 1..Len(Digits) : logOut[i] = Digits[d]

\* ---- C21
\* The chat response of call s arrives in this step with a url-mode elicitation.
UrlReceipt(s) ==
    /\ sendOps[s].pc = "chat"
    /\ sendOps'[s].pc # "chat"
    /\ sendOps'[s].elicitation.type = "elicitation"
    /\ sendOps'[s].elicitation.mode = "url"

\* handleFileSelect starts or resumes in this step.
PickStep == pickOps' # pickOps

\* C21: a url-mode elicitation opens the picker, stashes its url as a 'ui'
\* upload and issues no upload, with attachedFile left as it is, attached or
\* not; every step of handleFileSelect leaves attachedFile as it is, and the
\* file it uploads is the selected one, never the attached one.
C21_PickerFlowKeepsAttachment ==
    /\ [][ /\ \A s \in 1..Len(sendOps) :
                 UrlReceipt(s) =>
                     /\ pickerOpen'
                     /\ dataset'.url = sendOps'[s].elicitation.url
                     /\ dataset'.uploadMode = "ui"
                     /\ Len(reqs') = Len(reqs)
                     /\ attachedFile' = attachedFile
           /\ PickStep => attachedFile' = attachedFile ]_vars
    /\ [](\A u \in Uploads :
              reqs[u].by = "handleFileSelect" =>
                  /\ reqs[u].file = pickOps[reqs[u].op].file
                  /\ reqs[u].file # attachedFile
                  /\ \A s \in 1..Len(sendOps) :
                         reqs[u].file # sendOps[s].attachedFile)

\* A url-mode elicitation was received with a file attached, a file selected in
\* the picker was uploaded, and the attached file is still attached.
C21_Witness ==
    /\ attachedFile # NoFile
    /\ \E s \in 1..Len(sendOps) :
           /\ sendOps[s].attachedFile = attachedFile
           /\ sendOps[s].elicitation.type = "elicitation"
           /\ sendOps[s].elicitation.mode = "url"
    /\ \E p \in 1..Len(pickOps) : pickOps[p].pc = "done" /\ pickOps[p].uploadMode = "ui"

\* ---- C22
\* The directive has one of the two shapes sendMessage acts on.
Accepted(e) ==
    \/ e.type = "elicitation" /\ e.mode = "url"
    \/ e.type = "stream_upload" /\ e.mode = "stream"

\* The chat response of call s arrives in this step with a directive of
\* neither shape.
OddReceipt(s) ==
    /\ sendOps[s].pc = "chat"
    /\ sendOps'[s].pc # "chat"
    /\ sendOps'[s].elicitation # NoElicitation
    /\ ~Accepted(sendOps'[s].elicitation)

\* C22: a chat response with a directive of neither accepted shape appends the
\* assistant message and nothing else, opens no picker and stashes nothing,
\* issues no request, leaves attachedFile as it is, and ends the call with
\* isProcessing released.
C22_OddDirectiveIgnored ==
    [][ \A s \in 1..Len(sendOps) :
          OddReceipt(s) =>
              /\ messages' = Append(messages,
                     Msg("assistant", "sendMessage", s, 0, "chat_response", 0))
              /\ pickerOpen' = pickerOpen
              /\ dataset' = dataset
              /\ Len(reqs') = Len(reqs)
              /\ reqs'[sendOps[s].req].outcome = "ok"
              /\ attachedFile' = attachedFile
              /\ sendOps'[s].pc = "done"
              /\ ~isProcessing' ]_vars

\* A call made with a file attached has ended on a directive of type
\* "elicitation" and mode "stream"; the file is still attached and no picker
\* is open.
C22_Witness ==
    /\ attachedFile # NoFile
    /\ ~pickerOpen
    /\ Uploads = {}
    /\ \E s \in 1..Len(sendOps) :
           /\ sendOps[s].pc = "done"
           /\ sendOps[s].attachedFile = attachedFile
           /\ sendOps[s].elicitation.type = "elicitation"
           /\ sendOps[s].elicitation.mode = "stream"
====
